---- MODULE Spec2Model ----
(***************************************************************************)
(* Model of the floor_composer curve/geometry engine:                      *)
(*   core.py       points, segments, create_curve, validate_curve          *)
(*   factories.py  create_polyline, create_wave_profile,                   *)
(*                 create_closed_wave_profile                              *)
(*   visualization.py  SVGCurveViewer._calculate_bounds                    *)
(*                                                                         *)
(* Numbers.  The code computes with Python floats; the model computes with *)
(* exact rationals [n, d] (d > 0, lowest terms).  Lengths are counted in   *)
(* multiples of the validation tolerance, so the default tolerance 1e-6 of *)
(* validate_curve is the rational 1.  point_distance takes a square root;  *)
(* the model compares squared distances with the squared tolerance, which  *)
(* is the same comparison for non-negative numbers.                        *)
(*                                                                         *)
(* Optional values.  Python's None is the empty sequence and a present     *)
(* value v is <<v>>.  A string is a sequence of tokens, so that the        *)
(* concatenation name + "_open" is sequence concatenation.                 *)
(*                                                                         *)
(* Exceptions.  An operation returns Ok(curve) or Raise(error, index);     *)
(* a raised error propagates through every caller unchanged.               *)
(*                                                                         *)
(* Angles and lengths.  An angle is a rational multiple of pi, held as its *)
(* coefficient, and arctan2 is tabulated on the eight compass directions.  *)
(* A length is a number q + p*pi held as [q, pi]; square roots are taken   *)
(* of squares of rationals only, so the measured geometry has start points *)
(* that are axis-aligned with the other end or the centre.                 *)
(***************************************************************************)
EXTENDS Integers, Sequences, FiniteSets, TLC

VARIABLES pc, op, args, result, polyline_calls, curve_array

vars == <<pc, op, args, result, polyline_calls, curve_array>>

(* ------------------------------------------------------------------ *)
(* Bounds of the model                                                 *)
(* ------------------------------------------------------------------ *)

\* longest element list handed to create_curve
MaxElems == 3
\* largest total_width of a wave profile
MaxTotal == 5
\* largest wave_width, bottom_width and top_width
MaxWidth == 3
\* largest corrugation height
MaxHeight == 2
\* largest slab depth
MaxDepth == 3
\* longest element list of a measured curve
MaxMeasured == 2
\* most curves appended to the curve array
MaxCurves == 2

\* coordinates of the points handed to create_curve, in tolerance units:
\* two such points are 0, exactly one tolerance, or sqrt(2) tolerances apart
Coords == {0, 1}

(* ------------------------------------------------------------------ *)
(* Exact rational arithmetic (stands for Python float arithmetic)      *)
(* ------------------------------------------------------------------ *)

Abs(i) == IF i < 0 THEN -i ELSE i

RECURSIVE Gcd(_, _)
Gcd(a, b) == IF b = 0 THEN a ELSE Gcd(b, a % b)

\* the rational n/d in lowest terms with a positive denominator (d # 0)
Rat(n, d) ==
    LET g == Gcd(Abs(n), Abs(d))
        s == IF d < 0 THEN -1 ELSE 1
    IN  [n |-> s * (n \div g), d |-> s * (d \div g)]

RInt(i) == [n |-> i, d |-> 1]
RZero == RInt(0)
ROne == RInt(1)
RAdd(a, b) == Rat(a.n * b.d + b.n * a.d, a.d * b.d)
RSub(a, b) == Rat(a.n * b.d - b.n * a.d, a.d * b.d)
RMul(a, b) == Rat(a.n * b.n, a.d * b.d)
\* b # 0
RDiv(a, b) == Rat(a.n * b.d, a.d * b.n)
RLt(a, b) == a.n * b.d < b.n * a.d
RLe(a, b) == a.n * b.d <= b.n * a.d
RGt(a, b) == RLt(b, a)
RGe(a, b) == RLe(b, a)
RMin(a, b) == IF RLe(a, b) THEN a ELSE b

(* ------------------------------------------------------------------ *)
(* Optional values and outcomes                                        *)
(* ------------------------------------------------------------------ *)

None == <<>>
Some(v) == <<v>>
IsNone(o) == o = <<>>

Ok(curve) == [status |-> "ok", curve |-> curve]
Raise(error, index) == [status |-> "raised", error |-> error, index |-> index]

DiscontinuityError == "Curve discontinuity"
ClosureError == "Closed curve is not properly closed"
InsufficientPointsError == "Need at least 2 points for a polyline"
ZeroDivisionError == "ZeroDivisionError"

(* ------------------------------------------------------------------ *)
(* materials.py                                                        *)
(* ------------------------------------------------------------------ *)

\* the material argument of create_curve: None, a name, or a Material
AsStr(name) == <<"str", name>>
AsMaterial(m) == <<"Material", m>>
IsStr(material) == ~IsNone(material) /\ material[1] = "str"

Material(name, category, density, description) ==
    [name |-> name, category |-> category, density |-> density,
     description |-> description]

to_dict(m) ==
    [name |-> m.name, category |-> m.category, density |-> m.density,
     description |-> m.description]

CONCRETE == Material("concrete", "structural", 2400, "Reinforced concrete")
STEEL == Material("steel", "structural", 7850, "Structural steel")
INSULATION == Material("insulation", "thermal", 30, "Thermal insulation")
SCREED == Material("screed", "finish", 2000, "Floor screed")
FINISH_FLOOR == Material("finish_floor", "finish", 800, "Floor finish material")
TIMBER == Material("timber", "structural", 600, "Structural timber")
MASONRY == Material("masonry", "structural", 1800, "Brick or block masonry")
MEMBRANE == Material("membrane", "waterproofing", 50, "Waterproof membrane")
METAL_SHEET == Material("metal_sheet", "cladding", 7850, "Corrugated metal sheeting")

MATERIALS ==
    [k \in {"concrete", "steel", "insulation", "screed", "finish_floor",
            "timber", "masonry", "membrane", "metal_sheet"} |->
        CASE k = "concrete" -> CONCRETE
          [] k = "steel" -> STEEL
          [] k = "insulation" -> INSULATION
          [] k = "screed" -> SCREED
          [] k = "finish_floor" -> FINISH_FLOOR
          [] k = "timber" -> TIMBER
          [] k = "masonry" -> MASONRY
          [] k = "membrane" -> MEMBRANE
          [] k = "metal_sheet" -> METAL_SHEET]

\* str.lower on the names the model uses
lower(name) ==
    CASE name = "Steel" -> "steel"
      [] name = "STEEL" -> "steel"
      [] name = "Concrete" -> "concrete"
      [] name = "Timber" -> "timber"
      [] name = "Metal_Sheet" -> "metal_sheet"
      [] name = "Metal Sheet" -> "metal sheet"
      [] name = "GLASS" -> "glass"
      [] OTHER -> name

\* a lookup that matches the name as it is written
get_material_as_written(name) == IF name \in DOMAIN MATERIALS THEN MATERIALS[name] ELSE CONCRETE

get_material(name) ==
    IF lower(name) \in DOMAIN MATERIALS THEN MATERIALS[lower(name)] ELSE CONCRETE

(* ------------------------------------------------------------------ *)
(* core.py                                                             *)
(* ------------------------------------------------------------------ *)

create_point(x, y) == [x |-> x, y |-> y]

create_line_segment(start, end) == [type |-> "line", start |-> start, end |-> end]

\* validate_curve's default tolerance (1e-6), the unit of length of the model
Tolerance == 1

\* the square of point_distance(p1, p2)
point_distance_sq(p1, p2) ==
    LET dx == RSub(p2.x, p1.x)
        dy == RSub(p2.y, p1.y)
    IN  RAdd(RMul(dx, dx), RMul(dy, dy))

\* the comparison with >= in place of >: a gap of exactly one tolerance fails
FartherThanOrEqual(p1, p2, tolerance) ==
    RGe(point_distance_sq(p1, p2), RInt(tolerance * tolerance))

\* point_distance(p1, p2) > tolerance
FartherThan(p1, p2, tolerance) ==
    RGt(point_distance_sq(p1, p2), RInt(tolerance * tolerance))

\* Gaps with the scan stopping one pair early (range(len(elements) - 2))
GapsSkipLastPair(elements, tolerance) ==
    { i \in 0 .. Len(elements) - 3 :
        RGt(point_distance_sq(elements[i + 1].end, elements[i + 2].start),
            RInt(tolerance * tolerance)) }

\* the adjacent pairs i, i+1 (0-based) whose gap exceeds the tolerance
Gaps(elements, tolerance) ==
    { i \in 0 .. Len(elements) - 2 :
        FartherThan(elements[i + 1].end, elements[i + 2].start, tolerance) }

SetMin(S) == CHOOSE m \in S : \A k \in S : m <= k

\* validate_curve with the closure check skipped for a single element
\* (len(elements) > 1 in place of len(elements) > 0)
validate_curve_closure_from_two(curve, tolerance) ==
    LET elements == curve.elements
        gaps == IF Len(elements) > 1 THEN Gaps(elements, tolerance) ELSE {}
    IN  IF gaps # {}
        THEN Raise(DiscontinuityError, SetMin(gaps))
        ELSE IF /\ curve.curve_type = "closed"
                /\ Len(elements) > 1
                /\ FartherThan(elements[1].start, elements[Len(elements)].end, tolerance)
             THEN Raise(ClosureError, -1)
             ELSE Ok(curve)

\* validate_curve without the closure check
validate_curve_no_closure(curve, tolerance) ==
    LET elements == curve.elements
        gaps == IF Len(elements) > 1 THEN Gaps(elements, tolerance) ELSE {}
    IN  IF gaps # {}
        THEN Raise(DiscontinuityError, SetMin(gaps))
        ELSE Ok(curve)

validate_curve(curve, tolerance) ==
    LET elements == curve.elements
        gaps == IF Len(elements) > 1 THEN Gaps(elements, tolerance) ELSE {}
    IN  IF gaps # {}
        THEN Raise(DiscontinuityError, SetMin(gaps))
        ELSE IF /\ curve.curve_type = "closed"
                /\ Len(elements) > 0
                /\ FartherThan(elements[1].start, elements[Len(elements)].end, tolerance)
             THEN Raise(ClosureError, -1)
             ELSE Ok(curve)

create_curve(elements, curve_type, name, material) ==
    LET converted == IF IsStr(material) THEN AsMaterial(get_material(material[2]))
                     ELSE material
        curve == [elements |-> elements, curve_type |-> curve_type,
                  name |-> name,
                  material |-> IF IsNone(converted) THEN None
                               ELSE Some(to_dict(converted[2]))]
    IN  validate_curve(curve, Tolerance)

(* ------------------------------------------------------------------ *)
(* core.py: arcs, measurement, curve arrays                            *)
(* ------------------------------------------------------------------ *)

create_arc_segment(start, end, center, clockwise) ==
    [type |-> "arc", start |-> start, end |-> end, center |-> center,
     clockwise |-> clockwise]

create_curve_array(curves, name) == [curves |-> curves, name |-> name]

UnknownElementTypeError == "Unknown element type"

\* a value returned by a measurement
Value(v) == [status |-> "ok", value |-> v]

\* the number q + p * pi
Num(q, p) == [q |-> q, pi |-> p]
NumZero == Num(RZero, RZero)
NumAdd(a, b) == Num(RAdd(a.q, b.q), RAdd(a.pi, b.pi))

\* square root of a rational that is the square of a rational
ISqrt(k) == CHOOSE i \in 0 .. k : i * i = k
RSqrt(r) == Rat(ISqrt(r.n), ISqrt(r.d))

point_distance(p1, p2) == RSqrt(point_distance_sq(p1, p2))

line_length(line) == point_distance(line.start, line.end)

arc_radius(arc) == point_distance(arc.start, arc.center)

\* np.arctan2(y, x) as a multiple of pi, in (-pi, pi], on the compass
\* directions; arctan2(0, 0) is 0
arctan2(y, x) ==
    CASE y = RZero /\ RGe(x, RZero) -> RZero
      [] y = RZero /\ RLt(x, RZero) -> ROne
      [] x = RZero /\ RGt(y, RZero) -> Rat(1, 2)
      [] x = RZero /\ RLt(y, RZero) -> Rat(-1, 2)
      [] x = y /\ RGt(x, RZero) -> Rat(1, 4)
      [] x = y /\ RLt(x, RZero) -> Rat(-3, 4)
      [] RAdd(x, y) = RZero /\ RGt(y, RZero) -> Rat(3, 4)
      [] RAdd(x, y) = RZero /\ RLt(y, RZero) -> Rat(-1, 4)

RAbs(a) == [n |-> Abs(a.n), d |-> a.d]

\* arc_angle with the two corrections exchanged (+2*pi when clockwise)
arc_angle_shift_swapped(arc) ==
    LET center == arc.center
        start_angle == arctan2(RSub(arc.start.y, center.y), RSub(arc.start.x, center.x))
        end_angle == arctan2(RSub(arc.end.y, center.y), RSub(arc.end.x, center.x))
        angle == RSub(end_angle, start_angle)
    IN  RAbs(IF arc.clockwise /\ RGt(angle, RZero) THEN RAdd(angle, RInt(2))
             ELSE IF ~arc.clockwise /\ RLt(angle, RZero) THEN RSub(angle, RInt(2))
             ELSE angle)

\* the angle in radians, as a multiple of pi
arc_angle(arc) ==
    LET center == arc.center
        start_angle == arctan2(RSub(arc.start.y, center.y), RSub(arc.start.x, center.x))
        end_angle == arctan2(RSub(arc.end.y, center.y), RSub(arc.end.x, center.x))
        angle == RSub(end_angle, start_angle)
    IN  RAbs(IF arc.clockwise /\ RGt(angle, RZero) THEN RSub(angle, RInt(2))
             ELSE IF ~arc.clockwise /\ RLt(angle, RZero) THEN RAdd(angle, RInt(2))
             ELSE angle)

arc_length(arc) == RMul(arc_radius(arc), arc_angle(arc))

\* element_length that measures every element that is not a line as an arc
\* (no unknown-type error)
element_length_arc_otherwise(element) ==
    IF element.type = "line" THEN Value(Num(line_length(element), RZero))
    ELSE IF element.type = "arc" THEN Value(Num(RZero, arc_length(element)))
    ELSE Value(NumZero)

element_length(element) ==
    IF element.type = "line" THEN Value(Num(line_length(element), RZero))
    ELSE IF element.type = "arc" THEN Value(Num(RZero, arc_length(element)))
    ELSE Raise(UnknownElementTypeError, -1)

\* sum(element_length(elem) for elem in elements[i:]) added to total; the
\* first element that raises ends the sum
RECURSIVE sum_lengths(_, _, _)
sum_lengths(elements, i, total) ==
    IF i > Len(elements) THEN Value(total)
    ELSE LET l == element_length(elements[i])
         IN  IF l.status = "raised" THEN l
             ELSE sum_lengths(elements, i + 1, NumAdd(total, l.value))

\* curve_length that leaves out the last element
curve_length_drop_last(curve) ==
    sum_lengths(SubSeq(curve.elements, 1, Len(curve.elements) - 1), 1, NumZero)

curve_length(curve) == sum_lengths(curve.elements, 1, NumZero)

RECURSIVE sum_curve_lengths(_, _, _)
sum_curve_lengths(curves, i, total) ==
    IF i > Len(curves) THEN Value(total)
    ELSE LET l == curve_length(curves[i])
         IN  IF l.status = "raised" THEN l
             ELSE sum_curve_lengths(curves, i + 1, NumAdd(total, l.value))

curve_array_length(array) == sum_curve_lengths(array.curves, 1, NumZero)

(* ------------------------------------------------------------------ *)
(* factories.py                                                        *)
(* ------------------------------------------------------------------ *)

\* elements of a polyline: one line per consecutive pair of points, and the
\* closing line from the last point to the first when closed
polyline_elements(points, closed) ==
    LET open == [i \in 1 .. Len(points) - 1 |->
                    create_line_segment(points[i], points[i + 1])]
    IN  IF closed
        THEN Append(open, create_line_segment(points[Len(points)], points[1]))
        ELSE open

\* create_polyline with the test len(points) < 1
create_polyline_needs_one(points, closed, name) ==
    IF Len(points) < 1
    THEN Raise(InsufficientPointsError, -1)
    ELSE create_curve(polyline_elements(points, closed),
                      IF closed THEN "closed" ELSE "open", name, None)

create_polyline(points, closed, name) ==
    IF Len(points) < 2
    THEN Raise(InsufficientPointsError, -1)
    ELSE create_curve(polyline_elements(points, closed),
                      IF closed THEN "closed" ELSE "open", name, None)

\* floor division and modulo of positive numbers
num_waves_of(total_width, wave_width) == total_width \div wave_width
remainder_of(total_width, wave_width) == total_width % wave_width

side_slope_width(wave_width, bottom_width) == Rat(wave_width - bottom_width, 2)
top_offset(bottom_width, top_width) == Rat(bottom_width - top_width, 2)

\* horizontal run of one slope: side_slope_width - top_offset
slope_run(wave_width, bottom_width, top_width) ==
    RSub(side_slope_width(wave_width, bottom_width), top_offset(bottom_width, top_width))

\* wave_loop with the top-left point added at the start of every wave (the
\* test wave == 0 dropped)
RECURSIVE wave_loop_start_every_wave(_, _, _, _, _, _, _, _)
wave_loop_start_every_wave(wave, num_waves, current_x, points, run, bottom_width, top_width, height) ==
    IF wave >= num_waves
    THEN [x |-> current_x, points |-> points]
    ELSE LET x1 == RAdd(current_x, RInt(top_width))
             x2 == RAdd(x1, run)
             x3 == RAdd(x2, RInt(bottom_width))
             x4 == RAdd(x3, run)
             p4 == points \o << create_point(current_x, RInt(height)),
                                create_point(x1, RInt(height)),
                                create_point(x2, RZero),
                                create_point(x3, RZero),
                                create_point(x4, RInt(height)) >>
         IN  wave_loop_start_every_wave(wave + 1, num_waves, x4, p4, run,
                                        bottom_width, top_width, height)

\* the loop over the whole waves: [x |-> current_x, points |-> points] after
\* iterations wave .. num_waves - 1
RECURSIVE wave_loop(_, _, _, _, _, _, _, _)
wave_loop(wave, num_waves, current_x, points, run, bottom_width, top_width, height) ==
    IF wave >= num_waves
    THEN [x |-> current_x, points |-> points]
    ELSE LET p0 == IF wave = 0
                   THEN Append(points, create_point(current_x, RInt(height)))
                   ELSE points
             x1 == RAdd(current_x, RInt(top_width))
             x2 == RAdd(x1, run)
             x3 == RAdd(x2, RInt(bottom_width))
             x4 == RAdd(x3, run)
             p4 == p0 \o << create_point(x1, RInt(height)),
                            create_point(x2, RZero),
                            create_point(x3, RZero),
                            create_point(x4, RInt(height)) >>
         IN  wave_loop(wave + 1, num_waves, x4, p4, run, bottom_width, top_width, height)

\* the partial wave after the whole ones (lines 184-197):
\* [raised |-> a division by zero happened, points |-> the point list]
partial_wave(loop, remainder, num_waves, run, top_width, height) ==
    IF ~(remainder > 0 /\ num_waves > 0)
    THEN [raised |-> FALSE, points |-> loop.points]
    ELSE LET flat == remainder >= top_width
             x1 == IF flat THEN RAdd(loop.x, RInt(top_width)) ELSE loop.x
             p1 == IF flat
                   THEN Append(loop.points, create_point(x1, RInt(height)))
                   ELSE loop.points
             remaining == IF flat THEN remainder - top_width ELSE remainder
         IN  IF ~(remaining > 0)
             THEN [raised |-> FALSE, points |-> p1]
             ELSE IF run = RZero
                  THEN [raised |-> TRUE, points |-> p1]
                  ELSE LET slope_progress == RMin(RDiv(RInt(remaining), run), ROne)
                           slope_x == RAdd(x1, RInt(remaining))
                           slope_y == RMul(RInt(height), RSub(ROne, slope_progress))
                       IN  [raised |-> FALSE,
                            points |-> Append(p1, create_point(slope_x, slope_y))]

\* the point list create_wave_profile builds before it calls create_polyline,
\* with the starting point added before the loop instead of inside it
wave_profile_points_start_before_loop(total_width, wave_width, bottom_width, top_width, height) ==
    LET run == slope_run(wave_width, bottom_width, top_width)
        num_waves == num_waves_of(total_width, wave_width)
        remainder == remainder_of(total_width, wave_width)
        start_x == Rat(-top_width, 2)
        loop == wave_loop(1, num_waves + 1, start_x,
                          <<create_point(start_x, RInt(height))>>, run,
                          bottom_width, top_width, height)
    IN  partial_wave(loop, remainder, num_waves, run, top_width, height)

\* the point list create_wave_profile builds before it calls create_polyline
wave_profile_points(total_width, wave_width, bottom_width, top_width, height) ==
    LET run == slope_run(wave_width, bottom_width, top_width)
        num_waves == num_waves_of(total_width, wave_width)
        remainder == remainder_of(total_width, wave_width)
        start_x == Rat(-top_width, 2)
        loop == wave_loop(0, num_waves, start_x, <<>>, run, bottom_width, top_width, height)
    IN  partial_wave(loop, remainder, num_waves, run, top_width, height)

create_wave_profile(total_width, wave_width, bottom_width, top_width, height, name) ==
    LET name1 == IF IsNone(name) THEN Some(<<"Wave Profile">>) ELSE name
        built == wave_profile_points(total_width, wave_width, bottom_width, top_width, height)
    IN  IF built.raised
        THEN Raise(ZeroDivisionError, -1)
        ELSE create_polyline(built.points, FALSE, name1)

\* the points of a curve of lines: both ends of the first element, the end of
\* every later one
corrugated_points_of(elements) ==
    IF Len(elements) = 0 THEN <<>>
    ELSE <<elements[1].start>> \o [i \in 1 .. Len(elements) |-> elements[i].end]

Reversed(s) == [i \in 1 .. Len(s) |-> s[Len(s) + 1 - i]]

\* capped with depth >= height
capped_from_equal(height, depth) == ~IsNone(depth) /\ depth[1] >= height

\* depth is not None and depth > height
capped(height, depth) == ~IsNone(depth) /\ depth[1] > height

\* closed_profile_points without the copy of the first corrugation point that
\* line 256 appends in capped mode
closed_profile_points_no_last_copy(corrugated_points, height, depth) ==
    LET first_point == corrugated_points[1]
        last_point == corrugated_points[Len(corrugated_points)]
    IN  IF capped(height, depth)
        THEN << create_point(first_point.x, RInt(depth[1])),
                create_point(last_point.x, RInt(depth[1])),
                create_point(last_point.x, last_point.y) >>
             \o Reversed(corrugated_points)
        ELSE corrugated_points
             \o (IF last_point.y # RZero
                 THEN << create_point(last_point.x, RZero) >> ELSE <<>>)
             \o (IF first_point.y # RZero
                 THEN << create_point(first_point.x, RZero) >> ELSE <<>>)

\* the point list create_closed_wave_profile builds from the corrugation
\* points (non-empty) before it calls create_polyline
closed_profile_points(corrugated_points, height, depth) ==
    LET first_point == corrugated_points[1]
        last_point == corrugated_points[Len(corrugated_points)]
    IN  IF capped(height, depth)
        THEN << create_point(first_point.x, RInt(depth[1])),
                create_point(last_point.x, RInt(depth[1])),
                create_point(last_point.x, last_point.y) >>
             \o Reversed(corrugated_points)
             \o << create_point(first_point.x, first_point.y) >>
        ELSE corrugated_points
             \o (IF last_point.y # RZero
                 THEN << create_point(last_point.x, RZero) >> ELSE <<>>)
             \o (IF first_point.y # RZero
                 THEN << create_point(first_point.x, RZero) >> ELSE <<>>)

create_closed_wave_profile(total_width, wave_width, bottom_width, top_width, height, depth, name) ==
    LET name1 == IF IsNone(name) THEN Some(<<"Closed Wave Profile">>) ELSE name
        open_profile == create_wave_profile(total_width, wave_width, bottom_width,
                                            top_width, height,
                                            Some(name1[1] \o <<"_open">>))
    IN  IF open_profile.status = "raised"
        THEN open_profile
        ELSE LET corrugated_points == corrugated_points_of(open_profile.curve.elements)
             IN  IF Len(corrugated_points) = 0
                 THEN create_polyline(<<>>, TRUE, name1)
                 ELSE create_polyline(
                          closed_profile_points(corrugated_points, height, depth),
                          TRUE, name1)

(* ------------------------------------------------------------------ *)
(* visualization.py                                                    *)
(* ------------------------------------------------------------------ *)

\* start and end only, without the extremes of an arc
element_bound_points_ends_only(element) == {element.start, element.end}

\* the points _calculate_bounds collects from one element
element_bound_points(element) ==
    {element.start, element.end}
    \cup (IF element.type = "arc"
          THEN LET center == element.center
                   radius == arc_radius(element)
               IN  { create_point(RSub(center.x, radius), center.y),
                     create_point(RAdd(center.x, radius), center.y),
                     create_point(center.x, RSub(center.y, radius)),
                     create_point(center.x, RAdd(center.y, radius)) }
          ELSE {})

RSetMin(S) == CHOOSE m \in S : \A k \in S : RLe(m, k)
RSetMax(S) == CHOOSE m \in S : \A k \in S : RGe(m, k)

\* the box of the collected points, with an empty box at the origin when no
\* point was collected
calculate_bounds_zero_fallback(curves) ==
    LET all_points ==
            UNION { UNION { element_bound_points(curves[c].elements[e]) :
                              e \in DOMAIN curves[c].elements } :
                    c \in DOMAIN curves }
        xs == { q.x : q \in all_points }
        ys == { q.y : q \in all_points }
    IN  IF all_points = {}
        THEN [min_x |-> RZero, max_x |-> RZero, min_y |-> RZero, max_y |-> RZero]
        ELSE [min_x |-> RSetMin(xs), max_x |-> RSetMax(xs),
              min_y |-> RSetMin(ys), max_y |-> RSetMax(ys)]

\* SVGCurveViewer._calculate_bounds over a sequence of curves
calculate_bounds(curves) ==
    LET all_points ==
            UNION { UNION { element_bound_points(curves[c].elements[e]) :
                              e \in DOMAIN curves[c].elements } :
                    c \in DOMAIN curves }
        xs == { q.x : q \in all_points }
        ys == { q.y : q \in all_points }
    IN  IF all_points = {}
        THEN [min_x |-> RZero, max_x |-> ROne, min_y |-> RZero, max_y |-> ROne]
        ELSE [min_x |-> RSetMin(xs), max_x |-> RSetMax(xs),
              min_y |-> RSetMin(ys), max_y |-> RSetMax(ys)]

\* SVGCurveViewer.__init__: the canvas and its view
DefaultWidth == 800
DefaultHeight == 600
DefaultMargin == 50
SVGCurveViewer(width, height, margin) == [width |-> width, height |-> height, margin |-> margin, view_width |-> width - 2 * margin, view_height |-> height - 2 * margin]

\* the 10% padding of _create_transform, 1 + 0.1
Padding == Rat(11, 10)

\* a transform whose y offset is taken on the wrong side of the canvas centre
create_transform_offset_y_minus(self, bounds) ==
    LET dw0 == RSub(bounds.max_x, bounds.min_x)
        dh0 == RSub(bounds.max_y, bounds.min_y)
        data_width == RMul(IF dw0 = RZero THEN ROne ELSE dw0, Padding)
        data_height == RMul(IF dh0 = RZero THEN ROne ELSE dh0, Padding)
        scale == RMin(RDiv(RInt(self.view_width), data_width),
                      RDiv(RInt(self.view_height), data_height))
        center_x == RDiv(RAdd(bounds.min_x, bounds.max_x), RInt(2))
        center_y == RDiv(RAdd(bounds.min_y, bounds.max_y), RInt(2))
    IN  [scale |-> scale,
         offset_x |-> RSub(Rat(self.width, 2), RMul(center_x, scale)),
         offset_y |-> RSub(Rat(self.height, 2), RMul(center_y, scale))]

\* a transform scaled to the width alone
create_transform_scale_x(self, bounds) ==
    LET dw0 == RSub(bounds.max_x, bounds.min_x)
        data_width == RMul(IF dw0 = RZero THEN ROne ELSE dw0, Padding)
        scale == RDiv(RInt(self.view_width), data_width)
        center_x == RDiv(RAdd(bounds.min_x, bounds.max_x), RInt(2))
        center_y == RDiv(RAdd(bounds.min_y, bounds.max_y), RInt(2))
    IN  [scale |-> scale,
         offset_x |-> RSub(Rat(self.width, 2), RMul(center_x, scale)),
         offset_y |-> RAdd(Rat(self.height, 2), RMul(center_y, scale))]

\* SVGCurveViewer._create_transform: the scale and the offsets the returned
\* function closes over
\* a transform that takes the larger of the two scales
create_transform_scale_max(self, bounds) ==
    LET dw0 == RSub(bounds.max_x, bounds.min_x)
        dh0 == RSub(bounds.max_y, bounds.min_y)
        data_width == RMul(IF dw0 = RZero THEN ROne ELSE dw0, Padding)
        data_height == RMul(IF dh0 = RZero THEN ROne ELSE dh0, Padding)
        scale_x == RDiv(RInt(self.view_width), data_width)
        scale_y == RDiv(RInt(self.view_height), data_height)
        scale == IF RLe(scale_x, scale_y) THEN scale_y ELSE scale_x
        center_x == RDiv(RAdd(bounds.min_x, bounds.max_x), RInt(2))
        center_y == RDiv(RAdd(bounds.min_y, bounds.max_y), RInt(2))
    IN  [scale |-> scale,
         offset_x |-> RSub(Rat(self.width, 2), RMul(center_x, scale)),
         offset_y |-> RAdd(Rat(self.height, 2), RMul(center_y, scale))]

create_transform(self, bounds) ==
    LET dw0 == RSub(bounds.max_x, bounds.min_x)
        dh0 == RSub(bounds.max_y, bounds.min_y)
        data_width == RMul(IF dw0 = RZero THEN ROne ELSE dw0, Padding)
        data_height == RMul(IF dh0 = RZero THEN ROne ELSE dh0, Padding)
        scale == RMin(RDiv(RInt(self.view_width), data_width),
                      RDiv(RInt(self.view_height), data_height))
        center_x == RDiv(RAdd(bounds.min_x, bounds.max_x), RInt(2))
        center_y == RDiv(RAdd(bounds.min_y, bounds.max_y), RInt(2))
    IN  [scale |-> scale,
         offset_x |-> RSub(Rat(self.width, 2), RMul(center_x, scale)),
         offset_y |-> RAdd(Rat(self.height, 2), RMul(center_y, scale))]

\* the function _create_transform returns, applied to (x, y)
transform(t, x, y) ==
    [svg_x |-> RAdd(RMul(x, t.scale), t.offset_x),
     svg_y |-> RAdd(RMul(RSub(RZero, y), t.scale), t.offset_y)]

\* the format ":.2f": the nearest number of hundredths, ties to even
Format2f(r) ==
    LET h == (100 * r.n) \div r.d
        rem == 100 * r.n - h * r.d
    IN  IF 2 * rem < r.d THEN h
        ELSE IF 2 * rem > r.d THEN h + 1
        ELSE IF h % 2 = 0 THEN h ELSE h + 1

\* the commands of a path string; coordinates and radii are in hundredths
MoveTo(x, y) == [cmd |-> "M", x |-> Format2f(x), y |-> Format2f(y)]
LineTo(x, y) == [cmd |-> "L", x |-> Format2f(x), y |-> Format2f(y)]
ArcTo(radius, large_arc_flag, sweep_flag, x, y) == [cmd |-> "A", rx |-> Format2f(radius), ry |-> Format2f(radius), rotation |-> 0, large_arc_flag |-> large_arc_flag, sweep_flag |-> sweep_flag, x |-> Format2f(x), y |-> Format2f(y)]
ClosePath == [cmd |-> "Z"]

\* the loop body with the sweep flag following the clockwise flag
element_commands_sweep_as_clockwise(element, i, t) ==
    LET start == transform(t, element.start.x, element.start.y)
        end == transform(t, element.end.x, element.end.y)
        move == IF i = 0 THEN <<MoveTo(start.svg_x, start.svg_y)>> ELSE <<>>
    IN  IF element.type = "line"
        THEN move \o <<LineTo(end.svg_x, end.svg_y)>>
        ELSE IF element.type = "arc"
        THEN LET radius == RMul(arc_radius(element), t.scale)
                 large_arc_flag == IF RGt(arc_angle(element), ROne) THEN 1 ELSE 0
                 sweep_flag == IF element.clockwise THEN 1 ELSE 0
             IN  move \o <<ArcTo(radius, large_arc_flag, sweep_flag, end.svg_x, end.svg_y)>>
        ELSE <<>>

\* the body of the loop of _curve_to_svg_path for element i (from 0):
\* an element that is neither a line nor an arc appends nothing
element_commands(element, i, t) ==
    LET start == transform(t, element.start.x, element.start.y)
        end == transform(t, element.end.x, element.end.y)
        move == IF i = 0 THEN <<MoveTo(start.svg_x, start.svg_y)>> ELSE <<>>
    IN  IF element.type = "line"
        THEN move \o <<LineTo(end.svg_x, end.svg_y)>>
        ELSE IF element.type = "arc"
        THEN LET radius == RMul(arc_radius(element), t.scale)
                 large_arc_flag == IF RGt(arc_angle(element), ROne) THEN 1 ELSE 0
                 sweep_flag == IF element.clockwise THEN 0 ELSE 1
             IN  move \o <<ArcTo(radius, large_arc_flag, sweep_flag, end.svg_x, end.svg_y)>>
        ELSE <<>>

RECURSIVE loop_commands(_, _, _, _)
loop_commands(elements, i, t, path_commands) ==
    IF i >= Len(elements) THEN path_commands
    ELSE loop_commands(elements, i + 1, t,
                       path_commands \o element_commands(elements[i + 1], i, t))

\* a path that is closed whatever the curve type
curve_to_svg_path_always_closed(curve, t) == loop_commands(curve.elements, 0, t, <<>>) \o <<ClosePath>>

\* SVGCurveViewer._curve_to_svg_path: the commands joined into the string
curve_to_svg_path(curve, t) ==
    loop_commands(curve.elements, 0, t, <<>>)
    \o (IF curve.curve_type = "closed" THEN <<ClosePath>> ELSE <<>>)

(* ------------------------------------------------------------------ *)
(* utils.py and web_export.py                                          *)
(* ------------------------------------------------------------------ *)

\* utils.py: get_curve_bounds
get_curve_bounds(curves) == calculate_bounds(curves)

\* utils.py: extract_svg_path_data with bounds = None
extract_svg_path_data(curve, canvas_width, canvas_height) ==
    LET svg_viewer == SVGCurveViewer(canvas_width, canvas_height, DefaultMargin)
        bounds == calculate_bounds(<<curve>>)
    IN  curve_to_svg_path(curve, create_transform(svg_viewer, bounds))

AttributeError == "AttributeError"

\* str.replace(" ", "_").lower() on the names in use
web_id(name) ==
    CASE name = <<"Floor Profile">> -> <<"floor_profile">>
      [] name = <<"Deck A">> -> <<"deck_a">>
      [] OTHER -> name

\* the dictionary curve_to_web_dict builds from the path and the length
web_curve_record(curve, svg_path, length) ==
    IF IsNone(curve.name) THEN Raise(AttributeError, -1)
    ELSE IF length.status = "raised" THEN length
    ELSE Value([id |-> web_id(curve.name[1]), name |-> curve.name,
                curve_type |-> curve.curve_type, material |-> curve.material,
                geometry |-> [elements |-> curve.elements, svg_path |-> svg_path,
                              length |-> length.value]])

\* the record of a curve drawn in its own bounds, whatever bounds are given
curve_to_web_dict_own_bounds(curve, bounds, canvas_width, canvas_height) ==
    web_curve_record(curve,
                     curve_to_svg_path(curve,
                         create_transform(SVGCurveViewer(canvas_width, canvas_height, DefaultMargin),
                                          calculate_bounds(<<curve>>))),
                     curve_length(curve))

\* web_export.py: curve_to_web_dict; bounds is None or the bounds to use
curve_to_web_dict(curve, bounds, canvas_width, canvas_height) ==
    web_curve_record(curve,
                     curve_to_svg_path(curve,
                         create_transform(SVGCurveViewer(canvas_width, canvas_height, DefaultMargin),
                                          IF IsNone(bounds) THEN calculate_bounds(<<curve>>)
                                          ELSE bounds[1])),
                     curve_length(curve))

RECURSIVE web_curves_loop(_, _, _, _, _, _)
RECURSIVE web_curves_append(_, _, _, _, _, _, _)

\* the loop of curve_array_to_web_dict from curve i on
web_curves_loop(curves, i, bounds, canvas_width, canvas_height, web_curves) ==
    IF i > Len(curves) THEN Value(web_curves)
    ELSE web_curves_append(curves, i, bounds, canvas_width, canvas_height, web_curves,
                           curve_to_web_dict(curves[i], Some(bounds), canvas_width, canvas_height))

\* the append of the loop: an error of curve_to_web_dict ends the loop
web_curves_append(curves, i, bounds, canvas_width, canvas_height, web_curves, web_curve) ==
    IF web_curve.status = "raised" THEN web_curve
    ELSE web_curves_loop(curves, i + 1, bounds, canvas_width, canvas_height,
                         Append(web_curves, web_curve.value))

\* the dictionary curve_array_to_web_dict returns for an array with curves
web_array_record(array, web_curves, bounds, total_length, canvas_width, canvas_height) ==
    IF web_curves.status = "raised" THEN web_curves
    ELSE IF total_length.status = "raised" THEN total_length
    ELSE Value([name |-> array.name, curves |-> web_curves.value, bounds |-> bounds,
                total_length |-> total_length.value,
                canvas |-> [width |-> canvas_width, height |-> canvas_height]])

\* curve_array_to_web_dict once the shared bounds are calculated
web_array_shared(array, bounds, canvas_width, canvas_height) ==
    web_array_record(array,
                     web_curves_loop(array.curves, 1, bounds, canvas_width, canvas_height, <<>>),
                     bounds, curve_array_length(array), canvas_width, canvas_height)

\* web_export.py: curve_array_to_web_dict
curve_array_to_web_dict(array, canvas_width, canvas_height) ==
    IF array.curves = <<>>
    THEN Value([name |-> array.name, curves |-> <<>>,
                bounds |-> [min_x |-> RZero, max_x |-> ROne,
                            min_y |-> RZero, max_y |-> ROne],
                total_length |-> NumZero])
    ELSE web_array_shared(array, calculate_bounds(array.curves), canvas_width, canvas_height)

(* ------------------------------------------------------------------ *)
(* State machine: one call of an operation on inputs of the caller     *)
(* ------------------------------------------------------------------ *)

Points == { create_point(RInt(x), RInt(y)) : x \in Coords, y \in Coords }
Lines == { create_line_segment(s, e) : s \in Points, e \in Points }
SeqsUpTo(S, k) == UNION { [1 .. m -> S] : m \in 0 .. k }
CurveTypes == {"open", "closed"}

Init ==
    /\ pc = "idle"
    /\ op = "none"
    /\ args = <<>>
    /\ result = Raise("none", -1)
    /\ polyline_calls = <<>>
    /\ curve_array = create_curve_array(<<>>, Some(<<"Floor Profile">>))

CreateCurve ==
    /\ pc = "idle"
    /\ \E elements \in SeqsUpTo(Lines, MaxElems), curve_type \in CurveTypes :
         /\ args' = [elements |-> elements, curve_type |-> curve_type]
         /\ result' = create_curve(elements, curve_type, None, None)
    /\ op' = "create_curve"
    /\ pc' = "done"
    /\ UNCHANGED <<polyline_calls, curve_array>>

CreatePolyline ==
    /\ pc = "idle"
    /\ \E points \in SeqsUpTo(Points, MaxElems), closed \in BOOLEAN :
         /\ args' = [points |-> points, closed |-> closed]
         /\ result' = create_polyline(points, closed, None)
         /\ polyline_calls' = <<points>>
    /\ op' = "create_polyline"
    /\ pc' = "done"
    /\ UNCHANGED curve_array

Widths == 1 .. MaxWidth
Names == {None, Some(<<"deck">>)}

CreateWaveProfile ==
    /\ pc = "idle"
    /\ \E total_width \in 1 .. MaxTotal, wave_width \in Widths, bottom_width \in Widths,
          top_width \in Widths, height \in 1 .. MaxHeight, name \in Names :
         LET built == wave_profile_points(total_width, wave_width, bottom_width,
                                          top_width, height)
         IN  /\ args' = [total_width |-> total_width, wave_width |-> wave_width,
                         bottom_width |-> bottom_width, top_width |-> top_width,
                         height |-> height, name |-> name]
             /\ result' = create_wave_profile(total_width, wave_width, bottom_width,
                                              top_width, height, name)
             /\ polyline_calls' = IF built.raised THEN <<>> ELSE <<built.points>>
    /\ op' = "create_wave_profile"
    /\ pc' = "done"
    /\ UNCHANGED curve_array

CreateClosedWaveProfile ==
    /\ pc = "idle"
    /\ \E total_width \in 1 .. MaxTotal, wave_width \in Widths, bottom_width \in Widths,
          top_width \in Widths, height \in 1 .. MaxHeight,
          depth \in {None} \cup { Some(d) : d \in 1 .. MaxDepth }, name \in Names :
         LET built == wave_profile_points(total_width, wave_width, bottom_width,
                                          top_width, height)
             open_profile == create_wave_profile(total_width, wave_width, bottom_width,
                                                 top_width, height, None)
             corrugated_points ==
                 IF open_profile.status = "ok"
                 THEN corrugated_points_of(open_profile.curve.elements)
                 ELSE <<>>
         IN  /\ args' = [total_width |-> total_width, wave_width |-> wave_width,
                         bottom_width |-> bottom_width, top_width |-> top_width,
                         height |-> height, depth |-> depth, name |-> name]
             /\ result' = create_closed_wave_profile(total_width, wave_width,
                              bottom_width, top_width, height, depth, name)
             /\ polyline_calls' =
                    IF built.raised THEN <<>>
                    ELSE IF open_profile.status = "raised" THEN <<built.points>>
                    ELSE IF Len(corrugated_points) = 0 THEN <<built.points, <<>> >>
                    ELSE <<built.points,
                           closed_profile_points(corrugated_points, height, depth)>>
    /\ op' = "create_closed_wave_profile"
    /\ pc' = "done"
    /\ UNCHANGED curve_array

(* ---- measurement of arcs, elements, curves and curve arrays ---- *)

Origin == create_point(RZero, RZero)
Offsets == {-1, 0, 1}

\* arcs about a grid point whose start and end lie in the compass directions
AngleArcs ==
    { create_arc_segment(create_point(RAdd(c.x, RInt(sx)), RAdd(c.y, RInt(sy))),
                         create_point(RAdd(c.x, RInt(ex)), RAdd(c.y, RInt(ey))),
                         c, cw) :
        c \in Points, sx \in Offsets, sy \in Offsets, ex \in Offsets, ey \in Offsets,
        cw \in BOOLEAN }

\* lines and arcs whose length is rational: axis-aligned lines, and arcs about
\* the origin that start on an axis (or at the centre) and end at a grid point
MeasLines == { l \in Lines : l.start.x = l.end.x \/ l.start.y = l.end.y }
MeasArcs ==
    { create_arc_segment(s, e, Origin, cw) :
        s \in { q \in Points : q.x = RZero \/ q.y = RZero }, e \in Points,
        cw \in BOOLEAN }
UnknownElements ==
    { [type |-> "unknown", data |-> "test"],
      [type |-> "spline", start |-> Origin, end |-> Origin] }
MeasElements == MeasLines \cup MeasArcs \cup UnknownElements

ArcAngle ==
    /\ pc = "idle"
    /\ \E arc \in AngleArcs :
         /\ args' = [arc |-> arc]
         /\ result' = Value(arc_angle(arc))
    /\ op' = "arc_angle"
    /\ pc' = "done"
    /\ UNCHANGED <<polyline_calls, curve_array>>

ElementLength ==
    /\ pc = "idle"
    /\ \E element \in MeasElements :
         /\ args' = [element |-> element]
         /\ result' = element_length(element)
    /\ op' = "element_length"
    /\ pc' = "done"
    /\ UNCHANGED <<polyline_calls, curve_array>>

CurveLength ==
    /\ pc = "idle"
    /\ \E elements \in SeqsUpTo(MeasElements, MaxMeasured) :
         LET curve == [elements |-> elements, curve_type |-> "open",
                       name |-> None, material |-> None]
         IN  /\ args' = [curve |-> curve]
             /\ result' = curve_length(curve)
    /\ op' = "curve_length"
    /\ pc' = "done"
    /\ UNCHANGED <<polyline_calls, curve_array>>

\* an insertion at the front of the list
add_curve_to_array_at_front(array, curve) == [array EXCEPT !.curves = <<curve>> \o array.curves]

\* utils.py: add_curve_to_array
add_curve_to_array(array, curve) ==
    [array EXCEPT !.curves = Append(array.curves, curve)]

\* the lines and arcs that are drawn: lines along the axes, and arcs about the
\* origin from (1, 0) that sweep an eighth, a quarter, a half, three quarters,
\* seven eighths of a turn, or nothing
East == create_point(ROne, RZero)
DrawnLines ==
    { create_line_segment(Origin, Origin),
      create_line_segment(Origin, East),
      create_line_segment(Origin, create_point(RZero, ROne)),
      create_line_segment(East, create_point(ROne, ROne)) }
DrawnArcs ==
    { create_arc_segment(East, e, Origin, cw) :
        e \in { East, create_point(ROne, ROne), create_point(RZero, ROne),
                create_point(RInt(-1), RZero), create_point(RZero, RInt(-1)) },
        cw \in BOOLEAN }
DrawnElements == DrawnLines \cup DrawnArcs

\* the curves appended to the array, all of them curves create_curve returns:
\* the empty open curve, the open curves of one line or of one arc of an
\* eighth or a half of a turn, and the closed curve of one line without
\* length, with and without a name
ArrayNames == {None, Some(<<"Deck A">>)}
ArrayElements ==
    DrawnLines \cup { a \in DrawnArcs : a.end \in {create_point(ROne, ROne), create_point(RInt(-1), RZero)} }
ArrayCurves ==
    { [elements |-> elements, curve_type |-> "open", name |-> name, material |-> None] :
        elements \in {<<>>} \cup { <<e>> : e \in ArrayElements }, name \in ArrayNames }
    \cup { [elements |-> <<create_line_segment(Origin, Origin)>>, curve_type |-> "closed", name |-> name, material |-> None] :
             name \in ArrayNames }

AddCurveToArray ==
    /\ pc \in {"idle", "array"}
    /\ Len(curve_array.curves) < MaxCurves
    /\ \E curve \in ArrayCurves :
         /\ args' = [curve |-> curve]
         /\ curve_array' = add_curve_to_array(curve_array, curve)
    /\ op' = "add_curve_to_array"
    /\ pc' = "array"
    /\ UNCHANGED <<result, polyline_calls>>

\* the phases in which a function that only reads the array is called: any
\* number of such calls may follow one another
Reading == {"idle", "array", "done"}

CurveArrayLength ==
    /\ pc \in Reading
    /\ args' = [curve_array |-> curve_array]
    /\ result' = curve_array_length(curve_array)
    /\ op' = "curve_array_length"
    /\ pc' = "done"
    /\ UNCHANGED <<polyline_calls, curve_array>>

\* the canvases of the viewer: the default one, and its portrait form
Canvases ==
    { [width |-> DefaultWidth, height |-> DefaultHeight, margin |-> DefaultMargin],
      [width |-> DefaultHeight, height |-> DefaultWidth, margin |-> DefaultMargin] }

GetCurveBounds ==
    /\ pc \in Reading
    /\ args' = [curves |-> curve_array.curves]
    /\ result' = Value(get_curve_bounds(curve_array.curves))
    /\ op' = "get_curve_bounds"
    /\ pc' = "done"
    /\ UNCHANGED <<polyline_calls, curve_array>>

CurveArrayToWebDict ==
    /\ pc \in Reading
    /\ \E canvas \in Canvases :
         /\ args' = [curve_array |-> curve_array, canvas_width |-> canvas.width,
                     canvas_height |-> canvas.height]
         /\ result' = curve_array_to_web_dict(curve_array, canvas.width, canvas.height)
    /\ op' = "curve_array_to_web_dict"
    /\ pc' = "done"
    /\ UNCHANGED <<polyline_calls, curve_array>>

\* the curves whose path is extracted; path emission does not validate
PathElements ==
    DrawnElements
    \cup {create_line_segment(East, create_point(RInt(2), ROne))}
    \cup {[type |-> "spline", start |-> Origin, end |-> Origin]}

ExtractSvgPathData ==
    /\ pc = "idle"
    /\ \E elements \in SeqsUpTo(PathElements, MaxMeasured), curve_type \in CurveTypes,
          canvas \in Canvases :
         LET curve == [elements |-> elements, curve_type |-> curve_type,
                       name |-> None, material |-> None]
         IN  /\ args' = [curve |-> curve, canvas_width |-> canvas.width,
                         canvas_height |-> canvas.height]
             /\ result' = Value(extract_svg_path_data(curve, canvas.width, canvas.height))
    /\ op' = "extract_svg_path_data"
    /\ pc' = "done"
    /\ UNCHANGED <<polyline_calls, curve_array>>

\* bounding boxes on a small grid, a zero extent included
BoundCoords == {-1, 0, 1, 2}
BoundsInputs ==
    { [min_x |-> RInt(a), max_x |-> RInt(b), min_y |-> RInt(c), max_y |-> RInt(d)] :
        a \in BoundCoords, b \in BoundCoords, c \in BoundCoords, d \in BoundCoords }
    \ { b \in { [min_x |-> RInt(a), max_x |-> RInt(b), min_y |-> RInt(c), max_y |-> RInt(d)] :
                  a \in BoundCoords, b \in BoundCoords, c \in BoundCoords, d \in BoundCoords } :
          RGt(b.min_x, b.max_x) \/ RGt(b.min_y, b.max_y) }

\* the canvases a viewer is constructed with: a canvas without margin too
ViewerCanvases ==
    Canvases \cup {[width |-> DefaultWidth, height |-> DefaultHeight, margin |-> 0]}

CreateTransform ==
    /\ pc = "idle"
    /\ \E bounds \in BoundsInputs, canvas \in ViewerCanvases :
         /\ args' = [bounds |-> bounds, width |-> canvas.width, height |-> canvas.height,
                     margin |-> canvas.margin]
         /\ result' = Value(create_transform(
                               SVGCurveViewer(canvas.width, canvas.height, canvas.margin),
                               bounds))
    /\ op' = "create_transform"
    /\ pc' = "done"
    /\ UNCHANGED <<polyline_calls, curve_array>>

\* names of materials as a caller writes them: registered names in several
\* cases, names that are not registered, and the empty string
MaterialNames ==
    { "concrete", "steel", "insulation", "screed", "finish_floor", "timber", "masonry",
      "membrane", "metal_sheet", "Steel", "STEEL", "Concrete", "Timber", "Metal_Sheet",
      "Metal Sheet", "GLASS", "glass", "" }

GetMaterial ==
    /\ pc = "idle"
    /\ \E name \in MaterialNames :
         /\ args' = [name |-> name]
         /\ result' = Value(get_material(name))
    /\ op' = "get_material"
    /\ pc' = "done"
    /\ UNCHANGED <<polyline_calls, curve_array>>

\* the material argument of create_curve: None, a name, or a Material
MaterialArgs == {None, AsMaterial(STEEL)} \cup { AsStr(name) : name \in MaterialNames }

CreateCurveOfMaterial ==
    /\ pc = "idle"
    /\ \E elements \in SeqsUpTo(DrawnLines, MaxMeasured), curve_type \in CurveTypes,
          material \in MaterialArgs :
         /\ args' = [elements |-> elements, curve_type |-> curve_type, material |-> material]
         /\ result' = create_curve(elements, curve_type, None, material)
    /\ op' = "create_curve"
    /\ pc' = "done"
    /\ UNCHANGED <<polyline_calls, curve_array>>

\* the curve the array received last
last_curve == curve_array.curves[Len(curve_array.curves)]

\* calls that are given the curve the array received last
ValidateCurve ==
    /\ pc \in Reading
    /\ curve_array.curves # <<>>
    /\ args' = [curve |-> last_curve]
    /\ result' = validate_curve(last_curve, Tolerance)
    /\ op' = "validate_curve"
    /\ pc' = "done"
    /\ UNCHANGED <<polyline_calls, curve_array>>

CurveLengthOfMember ==
    /\ pc \in Reading
    /\ curve_array.curves # <<>>
    /\ args' = [curve |-> last_curve]
    /\ result' = curve_length(last_curve)
    /\ op' = "curve_length"
    /\ pc' = "done"
    /\ UNCHANGED <<polyline_calls, curve_array>>

ExtractSvgPathDataOfMember ==
    /\ pc \in Reading
    /\ curve_array.curves # <<>>
    /\ args' = [curve |-> last_curve, canvas_width |-> DefaultWidth,
                canvas_height |-> DefaultHeight]
    /\ result' = Value(extract_svg_path_data(last_curve, DefaultWidth, DefaultHeight))
    /\ op' = "extract_svg_path_data"
    /\ pc' = "done"
    /\ UNCHANGED <<polyline_calls, curve_array>>

\* a conversion that writes the name "unnamed" into a curve without a name
CurveToWebDictNaming ==
    /\ pc \in Reading
    /\ curve_array.curves # <<>>
    /\ args' = [curve |-> last_curve, bounds |-> None, canvas_width |-> DefaultWidth,
                canvas_height |-> DefaultHeight]
    /\ result' = curve_to_web_dict(last_curve, None, DefaultWidth, DefaultHeight)
    /\ op' = "curve_to_web_dict"
    /\ pc' = "done"
    /\ curve_array' = IF IsNone(last_curve.name)
                      THEN [curve_array EXCEPT !.curves[Len(curve_array.curves)].name = Some(<<"unnamed">>)]
                      ELSE curve_array
    /\ UNCHANGED polyline_calls

CurveToWebDict ==
    /\ pc \in Reading
    /\ curve_array.curves # <<>>
    /\ args' = [curve |-> last_curve, bounds |-> None, canvas_width |-> DefaultWidth,
                canvas_height |-> DefaultHeight]
    /\ result' = curve_to_web_dict(last_curve, None, DefaultWidth, DefaultHeight)
    /\ op' = "curve_to_web_dict"
    /\ pc' = "done"
    /\ UNCHANGED <<polyline_calls, curve_array>>

NextReading ==
    \/ AddCurveToArray
    \/ ValidateCurve
    \/ CurveLengthOfMember
    \/ ExtractSvgPathDataOfMember
    \/ CurveToWebDict
    \/ GetCurveBounds

SpecReading == Init /\ [][NextReading]_vars

\* the point objects of a list of points: the object at position i is named i
point_objects(points) == [i \in 1 .. Len(points) |-> i]

\* the segments of create_polyline as the objects they refer to:
\* create_line_segment stores the objects it is given
polyline_references(points, closed) == polyline_elements(point_objects(points), closed)

\* create_polyline on point objects of the caller: the curve, and the objects
\* its segments refer to
CreatePolylineOfObjects ==
    /\ pc = "idle"
    /\ \E points \in SeqsUpTo(Points, MaxElems), closed \in BOOLEAN :
         LET outcome == create_polyline(points, closed, None)
         IN  /\ args' = [points |-> points, closed |-> closed]
             /\ polyline_calls' = <<points>>
             /\ result' = IF outcome.status = "raised" THEN outcome
                          ELSE [status |-> "ok", curve |-> outcome.curve,
                                references |-> polyline_references(points, closed)]
    /\ op' = "create_polyline"
    /\ pc' = "done"
    /\ UNCHANGED curve_array

NextOwnership == CreatePolylineOfObjects

SpecOwnership == Init /\ [][NextOwnership]_vars

NextMaterials ==
    \/ GetMaterial
    \/ CreateCurveOfMaterial

SpecMaterials == Init /\ [][NextMaterials]_vars

NextView ==
    \/ AddCurveToArray
    \/ GetCurveBounds
    \/ CurveArrayToWebDict
    \/ ExtractSvgPathData
    \/ CreateTransform

SpecView == Init /\ [][NextView]_vars

NextMeasure ==
    \/ ArcAngle
    \/ ElementLength
    \/ CurveLength
    \/ AddCurveToArray
    \/ CurveArrayLength

SpecMeasure == Init /\ [][NextMeasure]_vars

NextCore == CreateCurve

SpecCore == Init /\ [][NextCore]_vars

NextFactories == CreatePolyline \/ CreateWaveProfile \/ CreateClosedWaveProfile

SpecFactories == Init /\ [][NextFactories]_vars

Next == NextCore \/ NextFactories \/ NextMeasure \/ NextView \/ NextMaterials \/ NextReading \/ NextOwnership

Spec == Init /\ [][Next]_vars

(* ------------------------------------------------------------------ *)
(* Properties of create_curve / validate_curve                         *)
(* ------------------------------------------------------------------ *)

CalledCreateCurve == pc = "done" /\ op = "create_curve"

\* distance(p1, p2) <= tolerance, stated on the squared distance
Within(p1, p2) ==
    LET dx == RSub(p2.x, p1.x)
        dy == RSub(p2.y, p1.y)
    IN  RLe(RAdd(RMul(dx, dx), RMul(dy, dy)), RInt(Tolerance * Tolerance))

AdjacentWithin(elements) ==
    \A i \in 1 .. Len(elements) - 1 : Within(elements[i].end, elements[i + 1].start)

ClosureWithin(elements) == Within(elements[1].start, elements[Len(elements)].end)

\* C1: every curve create_curve returns is the curve of the given elements
\* and has every adjacent pair within the tolerance; when some adjacent pair
\* is farther apart than the tolerance, create_curve raises the discontinuity
\* error and returns no curve.
C1_Continuity ==
    CalledCreateCurve =>
        /\ result.status = "ok" =>
              /\ result.curve.elements = args.elements
              /\ AdjacentWithin(result.curve.elements)
        /\ ~AdjacentWithin(args.elements) =>
              /\ result.status = "raised"
              /\ result.error = DiscontinuityError

\* a three-element curve is returned although one of its joints is a gap of
\* exactly one tolerance
C1_Witness ==
    /\ CalledCreateCurve
    /\ result.status = "ok"
    /\ Len(result.curve.elements) = 3
    /\ result.curve.elements[1].end # result.curve.elements[2].start

\* C2 as stated: a returned non-empty closed curve has its last end within the
\* tolerance of its first start, and every non-empty closed curve whose last
\* end is farther than that from its first start raises the closure error.
C2_Original ==
    CalledCreateCurve /\ args.curve_type = "closed" /\ Len(args.elements) > 0 =>
        /\ result.status = "ok" => ClosureWithin(result.curve.elements)
        /\ ~ClosureWithin(args.elements) =>
              /\ result.status = "raised"
              /\ result.error = ClosureError

\* C2: a returned non-empty closed curve has its last end within the tolerance
\* of its first start; a non-empty closed curve whose adjacent pairs are all
\* within the tolerance and whose last end is farther than the tolerance from
\* its first start raises the closure error (with a gap between adjacent
\* elements the discontinuity error is raised instead).
C2_Closure ==
    CalledCreateCurve /\ args.curve_type = "closed" /\ Len(args.elements) > 0 =>
        /\ result.status = "ok" => ClosureWithin(result.curve.elements)
        /\ ~ClosureWithin(args.elements) =>
              /\ result.status = "raised"
              /\ result.error = IF AdjacentWithin(args.elements)
                                THEN ClosureError ELSE DiscontinuityError

\* three connected lines given as a closed curve, the last ending sqrt(2)
\* tolerances from the start of the first, raise the closure error
C2_Witness ==
    /\ CalledCreateCurve
    /\ args.curve_type = "closed"
    /\ Len(args.elements) = 3
    /\ \A i \in 1 .. 2 : args.elements[i].end = args.elements[i + 1].start
    /\ ~ClosureWithin(args.elements)
    /\ result = Raise(ClosureError, -1)

\* C3 as stated: create_curve succeeds on every element list of length 0 or 1,
\* for either curve type.
C3_Original ==
    CalledCreateCurve /\ Len(args.elements) <= 1 => result.status = "ok"

\* C3: create_curve succeeds on the empty element list for either curve type
\* and on every one-element open curve; a one-element closed curve succeeds
\* exactly when its element ends within the tolerance of its own start, and
\* raises the closure error otherwise.  The discontinuity error is never
\* raised for fewer than two elements.
C3_ZeroOrOne ==
    CalledCreateCurve /\ Len(args.elements) <= 1 =>
        IF /\ Len(args.elements) = 1
           /\ args.curve_type = "closed"
           /\ ~Within(args.elements[1].start, args.elements[1].end)
        THEN result = Raise(ClosureError, -1)
        ELSE result.status = "ok" /\ result.curve.elements = args.elements

\* a closed curve of one line whose end is sqrt(2) tolerances from its start
\* raises the closure error
C3_Witness ==
    /\ CalledCreateCurve
    /\ Len(args.elements) = 1
    /\ args.curve_type = "closed"
    /\ result = Raise(ClosureError, -1)

(* ------------------------------------------------------------------ *)
(* Properties of the wave profile factories                            *)
(* ------------------------------------------------------------------ *)

CalledWave == pc = "done" /\ op = "create_wave_profile"
CalledClosedWave == pc = "done" /\ op = "create_closed_wave_profile"

\* floor(total_width / wave_width) of the call's inputs
WholeWaves == args.total_width \div args.wave_width
Remainder == args.total_width % args.wave_width

Pt(x, y) == [x |-> x, y |-> y]

\* a depth is given and exceeds the corrugation height
DepthAboveHeight == args.depth # None /\ args.depth[1] > args.height

\* C4 as stated: for all positive inputs with at least one whole wave,
\* create_wave_profile returns an open curve whose adjacent elements are
\* within the tolerance, without raising.
C4_WaveValidatesOpen ==
    CalledWave /\ WholeWaves >= 1 =>
        /\ result.status = "ok"
        /\ result.curve.curve_type = "open"
        /\ AdjacentWithin(result.curve.elements)

\* C5 as stated: when wave_width > total_width, create_wave_profile hands no
\* point beyond the initial point (-top_width/2, height) to the polyline
\* factory and returns a (degenerate) curve.
C5_Original ==
    CalledWave /\ args.wave_width > args.total_width =>
        /\ Len(polyline_calls) = 1
        /\ \/ polyline_calls[1] = <<>>
           \/ polyline_calls[1] = << Pt(Rat(-args.top_width, 2), RInt(args.height)) >>
        /\ result.status = "ok"

\* C5: when wave_width > total_width, create_wave_profile emits no point at
\* all, not even the initial one, hands the empty point list to the polyline
\* factory and raises its insufficient-points error; no curve is returned.
C5_NoWholeWave ==
    CalledWave /\ args.wave_width > args.total_width =>
        /\ polyline_calls = << <<>> >>
        /\ result = Raise(InsufficientPointsError, -1)

C5_Witness ==
    /\ CalledWave
    /\ args.wave_width > args.total_width
    /\ result.status = "raised"
    /\ polyline_calls = << <<>> >>

\* C6 as stated: when the corrugation point list is empty,
\* create_closed_wave_profile returns an empty closed curve without raising.
C6_EmptyClosedCurve ==
    CalledClosedWave /\ Len(polyline_calls) >= 1 /\ polyline_calls[1] = <<>> =>
        /\ result.status = "ok"
        /\ result.curve.curve_type = "closed"
        /\ result.curve.elements = <<>>

\* C7 as stated: for depth > height > 0 and at least one whole wave,
\* create_closed_wave_profile returns a curve that validates as closed, and
\* the bounds of that curve have max_y = depth and min_y = 0.
C7_CappedBounds ==
    CalledClosedWave /\ WholeWaves >= 1 /\ DepthAboveHeight =>
        /\ result.status = "ok"
        /\ result.curve.curve_type = "closed"
        /\ AdjacentWithin(result.curve.elements)
        /\ ClosureWithin(result.curve.elements)
        /\ calculate_bounds(<<result.curve>>).max_y = RInt(args.depth[1])
        /\ calculate_bounds(<<result.curve>>).min_y = RZero

\* the capped point list of the specification: cap, drop, corrugation reversed
CapDropReversed(corr, depth) ==
    << Pt(corr[1].x, RInt(depth)),
       Pt(corr[Len(corr)].x, RInt(depth)),
       Pt(corr[Len(corr)].x, corr[Len(corr)].y) >>
    \o [i \in 1 .. Len(corr) |-> corr[Len(corr) + 1 - i]]

\* the closed profile was built: the corrugation and the boundary point lists
\* were both handed to the polyline factory
BuiltClosed == CalledClosedWave /\ Len(polyline_calls) = 2

\* C8 as stated: in capped mode the point list handed to the polyline factory
\* is (first.x, depth), (last.x, depth), (last.x, last.y), then the n
\* corrugation points reversed, and nothing else; the curve has n + 3 elements.
C8_Original ==
    BuiltClosed /\ DepthAboveHeight =>
        /\ polyline_calls[2] = CapDropReversed(polyline_calls[1], args.depth[1])
        /\ result.status = "ok" =>
              Len(result.curve.elements) = Len(polyline_calls[1]) + 3

\* C8: in capped mode the point list handed to the polyline factory is
\* (first.x, depth), (last.x, depth), (last.x, last.y), then the n corrugation
\* points reversed, then one more point (first.x, first.y), a copy of the
\* first corrugation point; the edge back to (first.x, depth) is not in the
\* list but is the implicit closing edge, which starts at (first.x, first.y),
\* and the curve has n + 4 elements.
C8_CappedOrder ==
    BuiltClosed /\ DepthAboveHeight =>
        LET corr == polyline_calls[1]
            handed == polyline_calls[2]
            n == Len(corr)
        IN  /\ handed = CapDropReversed(corr, args.depth[1])
                          \o << Pt(corr[1].x, corr[1].y) >>
            /\ result.status = "ok"
            /\ Len(result.curve.elements) = n + 4
            /\ handed[Len(handed)] # Pt(corr[1].x, RInt(args.depth[1]))
            /\ result.curve.elements[n + 4] =
                  [type |-> "line", start |-> Pt(corr[1].x, corr[1].y),
                   end |-> Pt(corr[1].x, RInt(args.depth[1]))]

\* a capped profile over two whole waves and a partial one
C8_Witness ==
    /\ BuiltClosed
    /\ DepthAboveHeight
    /\ WholeWaves = 2
    /\ Remainder > 0
    /\ result.status = "ok"

\* C9: the closed profile is uncapped exactly when depth is absent or
\* depth <= height.  Then the point list handed to the polyline factory is
\* the corrugation points forward, then (last.x, 0) iff last.y # 0, then
\* (first.x, 0) iff first.y # 0, and the result is a closed curve; otherwise
\* the list starts with the cap point (first.x, depth) and is not of that form.
C9_Uncapped ==
    BuiltClosed =>
        LET corr == polyline_calls[1]
            handed == polyline_calls[2]
            first == corr[1]
            last == corr[Len(corr)]
            forward == corr
                       \o (IF last.y = RZero THEN <<>> ELSE << Pt(last.x, RZero) >>)
                       \o (IF first.y = RZero THEN <<>> ELSE << Pt(first.x, RZero) >>)
            uncapped == \/ args.depth = None
                        \/ args.depth # None /\ args.depth[1] <= args.height
        IN  /\ uncapped <=> handed = forward
            /\ uncapped =>
                  /\ result.status = "ok"
                  /\ result.curve.curve_type = "closed"
                  /\ Len(result.curve.elements) = Len(forward)
            /\ ~uncapped => handed[1] = Pt(first.x, RInt(args.depth[1]))

\* depth equal to height, and a corrugation that ends on the baseline, so
\* that only (first.x, 0) is appended
C9_Witness ==
    /\ BuiltClosed
    /\ args.depth = Some(args.height)
    /\ polyline_calls[1][Len(polyline_calls[1])].y = RZero
    /\ Len(polyline_calls[2]) = Len(polyline_calls[1]) + 1
    /\ result.status = "ok"

\* C10: when total_width is an exact multiple of wave_width and at least one
\* whole wave fits, create_wave_profile returns an open curve that starts at
\* (-top_width/2, height) and has exactly 4 * num_waves line segments whose
\* end points have y = height, 0, 0, height, repeating per period.
C10_WholePeriods ==
    CalledWave /\ Remainder = 0 /\ WholeWaves >= 1 =>
        /\ result.status = "ok"
        /\ result.curve.curve_type = "open"
        /\ result.curve.elements[1].start = Pt(Rat(-args.top_width, 2), RInt(args.height))
        /\ Len(result.curve.elements) = 4 * WholeWaves
        /\ \A i \in 1 .. Len(result.curve.elements) :
              /\ result.curve.elements[i].type = "line"
              /\ result.curve.elements[i].end.y =
                    IF (i - 1) % 4 \in {0, 3} THEN RInt(args.height) ELSE RZero

\* a profile of two whole periods and no remainder
C10_Witness ==
    /\ CalledWave
    /\ Remainder = 0
    /\ WholeWaves = 2
    /\ result.status = "ok"
    /\ Len(result.curve.elements) = 8

\* C11 as stated: when remainder == 0 and at least one whole wave fits, the
\* profile ends exactly at a wave boundary: every whole period advances x by
\* wave_width and last.x - first.x = num_waves * wave_width = total_width.
C11_HorizontalExtent ==
    CalledWave /\ Remainder = 0 /\ WholeWaves >= 1 =>
        /\ result.status = "ok"
        /\ LET elements == result.curve.elements
               first == elements[1].start
               last == elements[Len(elements)].end
           IN  /\ RSub(last.x, first.x) = RInt(args.total_width)
               /\ WholeWaves * args.wave_width = args.total_width
               /\ \A k \in 1 .. WholeWaves :
                     RSub(elements[4 * k].end.x, first.x) = RInt(k * args.wave_width)

CalledPolyline == pc = "done" /\ op = "create_polyline"

\* C12: create_polyline given 0 or 1 points raises the insufficient-points
\* error, for closed = true as well as closed = false, and returns no curve.
C12_InsufficientPoints ==
    CalledPolyline /\ Len(args.points) < 2 =>
        /\ result.status = "raised"
        /\ result.error = InsufficientPointsError

\* a single point given with closed = true
C12_Witness ==
    /\ CalledPolyline
    /\ Len(args.points) = 1
    /\ args.closed
    /\ result.status = "raised"

(* ------------------------------------------------------------------ *)
(* Properties of measurement                                           *)
(* ------------------------------------------------------------------ *)

\* the compass direction of the vector (dx, dy), counted counter-clockwise in
\* eighths of a turn from the positive x axis; the zero vector counts as 0
Sign(a) == IF a.n > 0 THEN 1 ELSE IF a.n < 0 THEN -1 ELSE 0
DirIndex(dx, dy) ==
    LET d == <<Sign(dx), Sign(dy)>>
    IN  CASE d = <<0, 0>> -> 0
          [] d = <<1, 0>> -> 0
          [] d = <<1, 1>> -> 1
          [] d = <<0, 1>> -> 2
          [] d = <<-1, 1>> -> 3
          [] d = <<-1, 0>> -> 4
          [] d = <<-1, -1>> -> 5
          [] d = <<0, -1>> -> 6
          [] d = <<1, -1>> -> 7

\* the angle swept from the start to the end of an arc in its own sense of
\* rotation, as a multiple of pi
Swept(arc) ==
    LET s == DirIndex(RSub(arc.start.x, arc.center.x), RSub(arc.start.y, arc.center.y))
        e == DirIndex(RSub(arc.end.x, arc.center.x), RSub(arc.end.y, arc.center.y))
    IN  IF arc.clockwise THEN Rat((s - e) % 8, 4) ELSE Rat((e - s) % 8, 4)

CalledArcAngle == pc = "done" /\ op = "arc_angle"

\* C13: arc_angle returns a value in [0, 2*pi], never negative, for every
\* arc: the raw difference of the end and start angles, shifted by -2*pi when
\* clockwise and positive and by +2*pi when counter-clockwise and negative,
\* in absolute value, which is the angle swept from start to end in the arc's
\* sense of rotation.
C13_ArcAngleRange ==
    CalledArcAngle =>
        /\ result.status = "ok"
        /\ RLe(RZero, result.value)
        /\ RLe(result.value, RInt(2))
        /\ result.value = Swept(args.arc)

\* a clockwise arc whose raw angle difference is positive, so that the shift
\* by -2*pi applies: it sweeps 7/4 pi
C13_Witness ==
    /\ CalledArcAngle
    /\ args.arc.clockwise
    /\ result.value = Rat(7, 4)

\* the length of a line or arc of the measured geometry, stated from its
\* coordinates: a line is axis-aligned, an arc starts on an axis of its centre
AbsDiff(a, b) == IF RLe(a, b) THEN RSub(b, a) ELSE RSub(a, b)
GeomLength(e) ==
    IF e.type = "line"
    THEN [q |-> RAdd(AbsDiff(e.start.x, e.end.x), AbsDiff(e.start.y, e.end.y)),
          pi |-> RZero]
    ELSE [q |-> RZero,
          pi |-> RMul(RAdd(AbsDiff(e.start.x, e.center.x), AbsDiff(e.start.y, e.center.y)),
                      Swept(e))]

RECURSIVE GeomSum(_)
GeomSum(elements) ==
    IF elements = <<>> THEN [q |-> RZero, pi |-> RZero]
    ELSE LET rest == GeomSum(Tail(elements))
             here == GeomLength(Head(elements))
         IN  [q |-> RAdd(here.q, rest.q), pi |-> RAdd(here.pi, rest.pi)]

RECURSIVE GeomArraySum(_)
GeomArraySum(curves) ==
    IF curves = <<>> THEN [q |-> RZero, pi |-> RZero]
    ELSE LET rest == GeomArraySum(Tail(curves))
             here == GeomSum(Head(curves).elements)
         IN  [q |-> RAdd(here.q, rest.q), pi |-> RAdd(here.pi, rest.pi)]

LinesAndArcs(elements) ==
    \A i \in 1 .. Len(elements) : elements[i].type \in {"line", "arc"}

CalledElementLength == pc = "done" /\ op = "element_length"
CalledCurveLength == pc = "done" /\ op = "curve_length"
CalledArrayLength == pc = "done" /\ op = "curve_array_length"

\* C14: for every curve of lines and arcs, curve_length is >= 0 and is the
\* sum of the lengths of its elements (0 for an empty curve), and
\* curve_array_length is the sum of the lengths of the array's curves.
C14_LengthIsSum ==
    /\ CalledCurveLength /\ LinesAndArcs(args.curve.elements) =>
          /\ result.status = "ok"
          /\ RGe(result.value.q, RZero) /\ RGe(result.value.pi, RZero)
          /\ result.value = GeomSum(args.curve.elements)
          /\ args.curve.elements = <<>> => result.value = [q |-> RZero, pi |-> RZero]
    /\ CalledArrayLength =>
          /\ result.status = "ok"
          /\ result.value = GeomArraySum(curve_array.curves)

\* a curve of a line and an arc, both of positive length
C14_Witness ==
    /\ CalledCurveLength
    /\ Len(args.curve.elements) = 2
    /\ args.curve.elements[1].type = "line"
    /\ args.curve.elements[2].type = "arc"
    /\ result.status = "ok"
    /\ result.value.q = ROne
    /\ RGt(result.value.pi, ROne)

\* C15: element_length raises the unknown-element-type error for every
\* element whose tag is neither line nor arc, and curve_length on a curve
\* that contains such an element raises the same error instead of returning
\* a number.
C15_UnknownElementType ==
    /\ CalledElementLength =>
          IF args.element.type \in {"line", "arc"}
          THEN result.status = "ok"
          ELSE result = Raise(UnknownElementTypeError, -1)
    /\ CalledCurveLength /\ ~LinesAndArcs(args.curve.elements) =>
          result = Raise(UnknownElementTypeError, -1)

\* a curve whose first element is a line and whose second has an unknown tag
C15_Witness ==
    /\ CalledCurveLength
    /\ Len(args.curve.elements) = 2
    /\ args.curve.elements[1].type = "line"
    /\ args.curve.elements[2].type = "unknown"
    /\ result.status = "raised"

(* ------------------------------------------------------------------ *)
(* Properties of bounds, transform and path emission                   *)
(* ------------------------------------------------------------------ *)

UnitBox == [min_x |-> RZero, max_x |-> ROne, min_y |-> RZero, max_y |-> ROne]
NoPoint(curves) == \A c \in 1 .. Len(curves) : curves[c].elements = <<>>

CalledGetBounds == pc = "done" /\ op = "get_curve_bounds"
CalledWebDict == pc = "done" /\ op = "curve_array_to_web_dict"
CalledPath == pc = "done" /\ op = "extract_svg_path_data"
CalledTransform == pc = "done" /\ op = "create_transform"

\* C16: calculate_bounds returns {min_x: 0, max_x: 1, min_y: 0, max_y: 1}
\* whenever no point is collected (no curve, or only curves without
\* elements), and the output record of an array without curves reports the
\* same bounds with curves = [] and total_length = 0.
C16_EmptyBoundsFallback ==
    /\ CalledGetBounds /\ NoPoint(args.curves) => result = Value(UnitBox)
    /\ CalledWebDict /\ args.curve_array.curves = <<>> =>
          /\ result.status = "ok"
          /\ result.value.curves = <<>>
          /\ result.value.bounds = UnitBox
          /\ result.value.total_length = [q |-> RZero, pi |-> RZero]
          /\ result.value.name = args.curve_array.name

\* the bounds of two curves that have no elements
C16_Witness ==
    /\ CalledGetBounds
    /\ Len(args.curves) = 2
    /\ NoPoint(args.curves)
    /\ result.value.max_x = ROne

InBox(b, x, y) ==
    /\ RLe(b.min_x, x) /\ RLe(x, b.max_x)
    /\ RLe(b.min_y, y) /\ RLe(y, b.max_y)

\* the radius of an arc that starts on an axis of its centre
AxisRadius(e) == RAdd(AbsDiff(e.start.x, e.center.x), AbsDiff(e.start.y, e.center.y))

\* C17: for every non-empty list of curves, calculate_bounds returns
\* min_x <= max_x and min_y <= max_y, the start and the end of every segment
\* lie inside the box, and so do the four cardinal points (c.x - r, c.y),
\* (c.x + r, c.y), (c.x, c.y - r), (c.x, c.y + r) of every arc, whatever the
\* angle it sweeps.
C17_BoundsContain ==
    CalledGetBounds /\ args.curves # <<>> =>
        /\ result.status = "ok"
        /\ RLe(result.value.min_x, result.value.max_x)
        /\ RLe(result.value.min_y, result.value.max_y)
        /\ \A c \in 1 .. Len(args.curves) : \A i \in 1 .. Len(args.curves[c].elements) :
              LET e == args.curves[c].elements[i]
              IN  /\ InBox(result.value, e.start.x, e.start.y)
                  /\ InBox(result.value, e.end.x, e.end.y)
                  /\ e.type = "arc" =>
                        /\ InBox(result.value, RSub(e.center.x, AxisRadius(e)), e.center.y)
                        /\ InBox(result.value, RAdd(e.center.x, AxisRadius(e)), e.center.y)
                        /\ InBox(result.value, e.center.x, RSub(e.center.y, AxisRadius(e)))
                        /\ InBox(result.value, e.center.x, RAdd(e.center.y, AxisRadius(e)))

\* the bounds of a single arc of an eighth of a turn, which stays in the
\* first quadrant while its box is the whole circle's
C17_Witness ==
    /\ CalledGetBounds
    /\ Len(args.curves) = 1
    /\ Len(args.curves[1].elements) = 1
    /\ args.curves[1].elements[1].type = "arc"
    /\ args.curves[1].elements[1].end = create_point(ROne, ROne)
    /\ ~args.curves[1].elements[1].clockwise
    /\ result.value.min_x = RInt(-1)
    /\ result.value.min_y = RInt(-1)

\* the transform extract_svg_path_data derives for the curve it was given
PathTransform ==
    create_transform(SVGCurveViewer(args.canvas_width, args.canvas_height, DefaultMargin),
                     calculate_bounds(<<args.curve>>))

\* a number of hundredths that is exactly the value v
Exactly(h, v) == Rat(h, 100) = v
\* a number of hundredths that is the value v rounded to two decimals
Rounded(h, v) == RLe(AbsDiff(Rat(h, 100), v), Rat(1, 200))

DrawnCurve == CalledPath /\ args.curve.elements # <<>> /\ LinesAndArcs(args.curve.elements)

\* the order of the commands of a path: M first and only first, one L or A
\* per element in element order, Z last exactly when the curve is closed
CommandOrder ==
    LET path == result.value
        elements == args.curve.elements
        n == Len(elements)
    IN  /\ Len(path) = n + 1 + (IF args.curve.curve_type = "closed" THEN 1 ELSE 0)
        /\ path[1].cmd = "M"
        /\ \A i \in 1 .. n :
              path[i + 1].cmd = (IF elements[i].type = "line" THEN "L" ELSE "A")
        /\ args.curve.curve_type = "closed" => path[n + 2].cmd = "Z"

\* C18 as stated: the move-to is at the transformed start of element 0 and
\* every line-to or arc command ends at its element's transformed end.
C18_Original ==
    DrawnCurve =>
        LET path == result.value
            elements == args.curve.elements
            first == transform(PathTransform, elements[1].start.x, elements[1].start.y)
        IN  /\ CommandOrder
            /\ Exactly(path[1].x, first.svg_x) /\ Exactly(path[1].y, first.svg_y)
            /\ \A i \in 1 .. Len(elements) :
                  LET end == transform(PathTransform, elements[i].end.x, elements[i].end.y)
                  IN  Exactly(path[i + 1].x, end.svg_x) /\ Exactly(path[i + 1].y, end.svg_y)

\* C18: for every non-empty curve of lines and arcs, curve_to_path emits
\* exactly one move-to, as the first command, at the transformed start of
\* element 0 rounded to two decimals, then exactly one line-to or arc command
\* per element in element order, each ending at that element's transformed
\* end rounded to two decimals, and then a close-path command as the last
\* command if and only if curve_type is closed.
C18_CommandOrder ==
    DrawnCurve =>
        LET path == result.value
            elements == args.curve.elements
            first == transform(PathTransform, elements[1].start.x, elements[1].start.y)
        IN  /\ CommandOrder
            /\ Rounded(path[1].x, first.svg_x) /\ Rounded(path[1].y, first.svg_y)
            /\ \A i \in 1 .. Len(elements) :
                  LET end == transform(PathTransform, elements[i].end.x, elements[i].end.y)
                  IN  Rounded(path[i + 1].x, end.svg_x) /\ Rounded(path[i + 1].y, end.svg_y)

\* a closed curve of a line and an arc: M, L, A, Z, with a line end that is
\* not a whole number of hundredths
C18_Witness ==
    /\ DrawnCurve
    /\ args.curve.curve_type = "closed"
    /\ Len(args.curve.elements) = 2
    /\ args.curve.elements[1].type = "line"
    /\ args.curve.elements[2].type = "arc"
    /\ Len(result.value) = 4
    /\ result.value[4].cmd = "Z"
    /\ LET end == transform(PathTransform, args.curve.elements[1].end.x,
                            args.curve.elements[1].end.y)
       IN  ~Exactly(result.value[2].x, end.svg_x)

\* the flags of the arc commands of a path
ArcFlags ==
    \A i \in 1 .. Len(args.curve.elements) :
        LET e == args.curve.elements[i]
            a == result.value[i + 1]
        IN  e.type = "arc" =>
              /\ a.cmd = "A"
              /\ a.sweep_flag = (IF e.clockwise THEN 0 ELSE 1)
              /\ a.large_arc_flag = (IF RGt(Swept(e), ROne) THEN 1 ELSE 0)

\* C19 as stated: both radii of the arc command equal
\* arc_radius * transform.scale.
C19_Original ==
    DrawnCurve =>
        /\ ArcFlags
        /\ \A i \in 1 .. Len(args.curve.elements) :
              LET e == args.curve.elements[i]
                  a == result.value[i + 1]
              IN  e.type = "arc" =>
                    /\ Exactly(a.rx, RMul(AxisRadius(e), PathTransform.scale))
                    /\ Exactly(a.ry, RMul(AxisRadius(e), PathTransform.scale))

\* C19: for every arc element, the emitted arc command has sweep_flag = 0 when
\* the arc's clockwise flag is true and 1 when it is false, large_arc_flag = 1
\* exactly when arc_angle > pi (0 otherwise, arc_angle == pi included), and
\* both radii equal arc_radius * transform.scale rounded to two decimals.
C19_ArcFlags ==
    DrawnCurve =>
        /\ ArcFlags
        /\ \A i \in 1 .. Len(args.curve.elements) :
              LET e == args.curve.elements[i]
                  a == result.value[i + 1]
              IN  e.type = "arc" =>
                    /\ Rounded(a.rx, RMul(AxisRadius(e), PathTransform.scale))
                    /\ Rounded(a.ry, RMul(AxisRadius(e), PathTransform.scale))

\* a clockwise arc of exactly half a turn: both flags are 0, and the radius
\* is not a whole number of hundredths
C19_Witness ==
    /\ DrawnCurve
    /\ Len(args.curve.elements) = 1
    /\ args.curve.elements[1].type = "arc"
    /\ args.curve.elements[1].clockwise
    /\ Swept(args.curve.elements[1]) = ROne
    /\ result.value[2].large_arc_flag = 0
    /\ result.value[2].sweep_flag = 0
    /\ ~Exactly(result.value[2].rx, PathTransform.scale)

SampleCoords == {-1, 0, 1, 2}

\* C20: the transform created from bounds is the affine map
\* (x, y) -> (width/2 + (x - cx) * scale, height/2 - (y - cy) * scale) with
\* (cx, cy) the midpoint of the bounds: the midpoint maps to the canvas
\* centre, x is scaled without flipping and y is inverted.
C20_AffineMap ==
    CalledTransform =>
        LET t == result.value
            b == args.bounds
            cx == RDiv(RAdd(b.min_x, b.max_x), RInt(2))
            cy == RDiv(RAdd(b.min_y, b.max_y), RInt(2))
            half_w == Rat(args.width, 2)
            half_h == Rat(args.height, 2)
        IN  /\ result.status = "ok"
            /\ \A x \in SampleCoords, y \in SampleCoords :
                  LET q == transform(t, RInt(x), RInt(y))
                  IN  /\ q.svg_x = RAdd(half_w, RMul(RSub(RInt(x), cx), t.scale))
                      /\ q.svg_y = RSub(half_h, RMul(RSub(RInt(y), cy), t.scale))
            /\ transform(t, cx, cy) = [svg_x |-> half_w, svg_y |-> half_h]
            /\ \A x \in SampleCoords, y \in SampleCoords :
                  /\ RLt(transform(t, RInt(x), RInt(y)).svg_x,
                         transform(t, RInt(x + 1), RInt(y)).svg_x)
                  /\ RGt(transform(t, RInt(x), RInt(y)).svg_y,
                         transform(t, RInt(x), RInt(y + 1)).svg_y)

\* a transform for bounds whose midpoint is off the origin on both axes
C20_Witness ==
    /\ CalledTransform
    /\ args.bounds = [min_x |-> RZero, max_x |-> RInt(2), min_y |-> RInt(-1), max_y |-> RInt(2)]
    /\ args.width = DefaultWidth
    /\ transform(result.value, ROne, Rat(1, 2)) = [svg_x |-> RInt(400), svg_y |-> RInt(300)]

\* the extent that replaces an extent of zero
UnitExtent == 1

\* an extent as _create_transform uses it: replaced when it is not positive,
\* then padded by 10%
PaddedExtent(lo, hi) ==
    RMul(IF RGt(RSub(hi, lo), RZero) THEN RSub(hi, lo) ELSE RInt(UnitExtent), Rat(110, 100))

SharedTransform ==
    create_transform(SVGCurveViewer(args.canvas_width, args.canvas_height, DefaultMargin),
                     calculate_bounds(args.curve_array.curves))

\* the path draws each element of the curve with the transform t: the
\* move-to at the start of the first element, every command at the end of its
\* element, every radius scaled by t.scale, all rounded to two decimals
DrawnWith(path, curve, t) ==
    /\ curve.elements # <<>> =>
          LET first == transform(t, curve.elements[1].start.x, curve.elements[1].start.y)
          IN  Rounded(path[1].x, first.svg_x) /\ Rounded(path[1].y, first.svg_y)
    /\ \A i \in 1 .. Len(curve.elements) :
          LET e == curve.elements[i]
              end == transform(t, e.end.x, e.end.y)
          IN  /\ Rounded(path[i + 1].x, end.svg_x) /\ Rounded(path[i + 1].y, end.svg_y)
              /\ e.type = "arc" => Rounded(path[i + 1].rx, RMul(AxisRadius(e), t.scale))

ArrayRecord == CalledWebDict /\ result.status = "ok" /\ args.curve_array.curves # <<>>

\* C22: in the curve-array output, the svg_path of every member curve is
\* drawn with the same transform (scale, offset_x, offset_y), the one of the
\* bounds of all member curves together and not of the curve's own bounds,
\* and those shared bounds are the bounds the record reports.
C22_SharedTransform ==
    ArrayRecord =>
        /\ Len(result.value.curves) = Len(args.curve_array.curves)
        /\ result.value.bounds = calculate_bounds(args.curve_array.curves)
        /\ \A c \in 1 .. Len(args.curve_array.curves) :
              DrawnWith(result.value.curves[c].geometry.svg_path,
                        args.curve_array.curves[c], SharedTransform)

\* an array of a line along the x axis and a line along the y axis: the
\* shared scale is smaller than the one of the first line's own bounds
C22_Witness ==
    /\ ArrayRecord
    /\ Len(args.curve_array.curves) = 2
    /\ args.curve_array.curves[1].elements = <<create_line_segment(Origin, East)>>
    /\ args.curve_array.curves[2].elements = <<create_line_segment(East, create_point(ROne, ROne))>>
    /\ ~DrawnWith(result.value.curves[1].geometry.svg_path, args.curve_array.curves[1],
                  create_transform(SVGCurveViewer(args.canvas_width, args.canvas_height, DefaultMargin),
                                   calculate_bounds(<<args.curve_array.curves[1]>>)))

(* ------------------------------------------------------------------ *)
(* Properties of materials, arrays and ownership                       *)
(* ------------------------------------------------------------------ *)

\* the registered name a written name matches when case is ignored, or ""
MatchedName(name) ==
    IF name \in {"steel", "Steel", "STEEL"} THEN "steel"
    ELSE IF name \in {"concrete", "Concrete"} THEN "concrete"
    ELSE IF name \in {"timber", "Timber"} THEN "timber"
    ELSE IF name \in {"metal_sheet", "Metal_Sheet"} THEN "metal_sheet"
    ELSE IF name \in {"insulation", "screed", "finish_floor", "masonry", "membrane"} THEN name
    ELSE ""

\* the record of the material a written name stands for
MaterialOf(name) ==
    LET m == IF MatchedName(name) = "" THEN CONCRETE ELSE MATERIALS[MatchedName(name)]
    IN  [name |-> IF MatchedName(name) = "" THEN "concrete" ELSE MatchedName(name),
         category |-> m.category, density |-> m.density, description |-> m.description]

CalledGetMaterial == pc = "done" /\ op = "get_material"
CreatedOfMaterial == pc = "done" /\ op = "create_curve" /\ "material" \in DOMAIN args

\* C23: get_material returns a material record {name, category, density,
\* description} for every string: the registered material for a known name,
\* matched without regard to case, and the default material (concrete)
\* otherwise; create_curve given a material name stores that record on the
\* curve.
C23_MaterialLookup ==
    /\ CalledGetMaterial =>
          /\ result.status = "ok"
          /\ DOMAIN result.value = {"name", "category", "density", "description"}
          /\ result.value = MaterialOf(args.name)
          /\ MatchedName(args.name) = "" => result.value.name = "concrete"
    /\ CreatedOfMaterial /\ result.status = "ok" /\ IsStr(args.material) =>
          result.curve.material = Some(MaterialOf(args.material[2]))

\* a curve created with the material name "STEEL" carries the steel record
C23_Witness ==
    /\ CreatedOfMaterial
    /\ args.material = AsStr("STEEL")
    /\ result.status = "ok"
    /\ result.curve.elements # <<>>
    /\ result.curve.material[1].name = "steel"
    /\ result.curve.material[1].density = 7850

\* C24: add_curve_to_array adds the given curve as the new last member,
\* increases the member count by exactly one, and leaves the name of the array
\* and every curve it held, and their order, unchanged; no other step changes
\* the array, after any number of appends.
C24_AppendOnly ==
    [][ /\ pc' = "array" =>
              /\ op' = "add_curve_to_array"
              /\ Len(curve_array'.curves) = Len(curve_array.curves) + 1
              /\ curve_array'.curves[Len(curve_array'.curves)] = args'.curve
              /\ \A i \in 1 .. Len(curve_array.curves) :
                    curve_array'.curves[i] = curve_array.curves[i]
              /\ curve_array'.name = curve_array.name
        /\ pc' # "array" => curve_array' = curve_array ]_vars

\* an array after its second append, of a curve other than the first
C24_Witness ==
    /\ pc = "array"
    /\ op = "add_curve_to_array"
    /\ Len(curve_array.curves) = 2
    /\ curve_array.curves[2] = args.curve
    /\ curve_array.curves[1] # curve_array.curves[2]
    /\ curve_array.curves[1].elements # <<>>
    /\ curve_array.name = Some(<<"Floor Profile">>)

\* the places of a curve that hold a point: the start and the end of each
\* segment
Slots(references) == { <<i, side>> : i \in 1 .. Len(references), side \in {"start", "end"} }
ObjectAt(references, slot) ==
    IF slot[2] = "start" THEN references[slot[1]].start ELSE references[slot[1]].end

\* C25: every point is owned by exactly one segment: no point object is
\* referred to from two places of a curve, the coinciding end and start of
\* adjacent segments of a polyline are copies.
C25_NoSharedPoints ==
    CalledPolyline /\ result.status = "ok" /\ "references" \in DOMAIN result =>
        \A a \in Slots(result.references), b \in Slots(result.references) :
            a # b => ObjectAt(result.references, a) # ObjectAt(result.references, b)

\* a curve that passes validation: adjacent segments within the tolerance,
\* and the end of a closed curve within the tolerance of its start
PassesValidation(curve) ==
    /\ AdjacentWithin(curve.elements)
    /\ curve.curve_type = "closed" /\ curve.elements # <<>> => ClosureWithin(curve.elements)

\* C26: validation, length measurement, bounds calculation, path emission and
\* web-record conversion leave the curves and the array they are given
\* unchanged, whether they return or raise; after any sequence of these calls
\* every curve has the elements, curve_type, name and material it was
\* constructed with and still passes validate_curve.
C26_Purity ==
    [][ pc' = "done" =>
            /\ curve_array' = curve_array
            /\ \A i \in 1 .. Len(curve_array'.curves) :
                  PassesValidation(curve_array'.curves[i]) ]_vars

\* a web-record conversion that raised on the second curve of an array whose
\* first curve is closed
C26_Witness ==
    /\ pc = "done"
    /\ op = "curve_to_web_dict"
    /\ result.status = "raised"
    /\ Len(curve_array.curves) = 2
    /\ curve_array.curves[2] = args.curve
    /\ curve_array.curves[2].elements # <<>>
    /\ curve_array.curves[1].curve_type = "closed"

\* the 0-based indices i whose element is farther than the tolerance from
\* element i + 1
BrokenPairs(elements) ==
    { i \in 0 .. Len(elements) - 2 : ~Within(elements[i + 1].end, elements[i + 2].start) }

\* the distance of p1 and p2 is exactly the tolerance
AtTolerance(p1, p2) ==
    LET dx == RSub(p2.x, p1.x)
        dy == RSub(p2.y, p1.y)
    IN  RAdd(RMul(dx, dx), RMul(dy, dy)) = RInt(Tolerance * Tolerance)

\* C27: the discontinuity error names the smallest index whose gap to the next
\* element exceeds the tolerance; the closure error is raised only when every
\* adjacent pair passed, so a curve both discontinuous and unclosed raises the
\* discontinuity error; gaps up to and including the tolerance are accepted
\* by both checks.
C27_FailureOrder ==
    CalledCreateCurve =>
        /\ BrokenPairs(args.elements) # {} =>
              /\ result.status = "raised"
              /\ result.error = DiscontinuityError
              /\ result.index \in BrokenPairs(args.elements)
              /\ \A i \in BrokenPairs(args.elements) : result.index <= i
        /\ result.status = "raised" /\ result.error = ClosureError =>
              BrokenPairs(args.elements) = {}
        /\ /\ BrokenPairs(args.elements) = {}
           /\ args.curve_type = "closed" /\ args.elements # <<>> => ClosureWithin(args.elements)
           => result.status = "ok"

\* a closed curve whose first joint is a gap of exactly the tolerance, whose
\* second joint is too wide and whose end is too far from its start: the
\* discontinuity error names the second joint
C27_Witness ==
    /\ CalledCreateCurve
    /\ args.curve_type = "closed"
    /\ Len(args.elements) = 3
    /\ AtTolerance(args.elements[1].end, args.elements[2].start)
    /\ ~Within(args.elements[2].end, args.elements[3].start)
    /\ ~ClosureWithin(args.elements)
    /\ result = Raise(DiscontinuityError, 1)

\* the points of the profile the call built: 1 + 4 * num_waves points of the
\* whole periods, then the points of the partial period
ProfilePoints == polyline_calls[1]
PartialPoints == Len(ProfilePoints) - (1 + 4 * WholeWaves)

\* C28 as stated: for positive inputs with num_waves >= 1 and remainder > 0,
\* create_wave_profile appends at most two points after the whole periods, a
\* top-flat point at y = height only when remainder >= top_width and one
\* partial-slope point only when the remainder is still positive after it;
\* every point of the profile has 0 <= y <= height and an x not smaller than
\* the x of the point before it.
C28_PartialInEnvelope ==
    CalledWave /\ WholeWaves >= 1 /\ Remainder > 0 =>
        /\ result.status = "ok"
        /\ polyline_calls # <<>>
        /\ PartialPoints =
              (IF Remainder >= args.top_width THEN 1 ELSE 0)
              + (IF Remainder > args.top_width \/ Remainder < args.top_width THEN 1 ELSE 0)
        /\ Remainder >= args.top_width =>
              ProfilePoints[2 + 4 * WholeWaves].y = RInt(args.height)
        /\ \A i \in 1 .. Len(ProfilePoints) :
              /\ RLe(RZero, ProfilePoints[i].y)
              /\ RLe(ProfilePoints[i].y, RInt(args.height))
              /\ i > 1 => RLe(ProfilePoints[i - 1].x, ProfilePoints[i].x)

CalledCurveToWebDict == pc = "done" /\ op = "curve_to_web_dict"

\* C29 as stated: curve_to_web_dict returns the complete record {id, name,
\* curve_type, material, geometry: {elements, svg_path, length}} for every
\* validly constructed curve, also one constructed without a name; it never
\* raises on such a curve.
C29_CompleteRecord ==
    CalledCurveToWebDict /\ PassesValidation(args.curve) =>
        /\ result.status = "ok"
        /\ DOMAIN result.value = {"id", "name", "curve_type", "material", "geometry"}
        /\ DOMAIN result.value.geometry = {"elements", "svg_path", "length"}
        /\ result.value.curve_type = args.curve.curve_type
        /\ result.value.material = args.curve.material
        /\ result.value.geometry.elements = args.curve.elements

\* the canvas point q lies inside the margins of a canvas
InView(q, width, height, margin) ==
    /\ RLe(RInt(margin), q.svg_x) /\ RLe(q.svg_x, RInt(width - margin))
    /\ RLe(RInt(margin), q.svg_y) /\ RLe(q.svg_y, RInt(height - margin))

\* the start and the end of every line and arc of the curve map inside the
\* margins under the transform t
EndsInView(curve, t, width, height, margin) ==
    \A i \in 1 .. Len(curve.elements) :
        LET e == curve.elements[i]
        IN  e.type \in {"line", "arc"} =>
                /\ InView(transform(t, e.start.x, e.start.y), width, height, margin)
                /\ InView(transform(t, e.end.x, e.end.y), width, height, margin)

\* C30: with the bounds calculate_bounds computes over a set of curves and
\* the transform created from them on a canvas with width > 2 * margin and
\* height > 2 * margin, the start and the end of every segment of every
\* covered curve map to margin <= svg_x <= width - margin and
\* margin <= svg_y <= height - margin.
C30_FitsViewport ==
    /\ CalledPath =>
          EndsInView(args.curve, PathTransform, args.canvas_width, args.canvas_height,
                     DefaultMargin)
    /\ pc = "done" /\ op = "curve_array_to_web_dict" =>
          \A c \in 1 .. Len(args.curve_array.curves) :
              EndsInView(args.curve_array.curves[c], SharedTransform, args.canvas_width,
                         args.canvas_height, DefaultMargin)

\* two lines from (0, 0) over (1, 0) to (2, 1) on the portrait canvas: the
\* bounds are twice as wide as high and the width decides the scale
C30_Witness ==
    /\ CalledPath
    /\ args.canvas_width = DefaultHeight
    /\ Len(args.curve.elements) = 2
    /\ args.curve.elements[1] = create_line_segment(Origin, East)
    /\ args.curve.elements[2].end = create_point(RInt(2), ROne)
    /\ calculate_bounds(<<args.curve>>) =
          [min_x |-> RZero, max_x |-> RInt(2), min_y |-> RZero, max_y |-> ROne]
    /\ transform(PathTransform, RInt(2), ROne) = [svg_x |-> Rat(5800, 11), svg_y |-> Rat(3150, 11)]

====
